---- MODULE Spec2Model ----
(***************************************************************************)
(* Model of lib/dashboard.ts: DashboardAutomationEventListener.messageSent *)
(* and the promises it creates.                                            *)
(*                                                                         *)
(* Strings are sequences of one-character strings, so that concatenation   *)
(* (template literals) is \o and String.prototype.includes is a substring  *)
(* search.  A JavaScript value whose truthiness the code tests is a record *)
(* [t |-> type tag, v |-> payload].                                        *)
(***************************************************************************)
EXTENDS Integers, Sequences, FiniteSets, Bags, TLC

(***************************************************************************)
(* Bounds                                                                  *)
(***************************************************************************)
\* Date.now() is read from a clock that runs from 1 to MaxClock.
MaxClock == 2

\* configuration.listeners is followed up to MaxListeners listeners.
MaxListeners == 4

\* attachments of a message and actions of an attachment, in the messages
\* the flattening is explored with
MaxAttachments == 2

MaxActions == 2

(***************************************************************************)
(* JavaScript values                                                       *)
(***************************************************************************)
Undefined == [t |-> "undefined", v |-> <<>>]

Null == [t |-> "null", v |-> <<>>]

Str(s) == [t |-> "string", v |-> s]

Num(n) == [t |-> "number", v |-> n]

Bool(b) == [t |-> "boolean", v |-> b]

\* ToBoolean: undefined, null, "", 0 and false are falsy.
Truthy(x) ==
    CASE x.t = "undefined" -> FALSE
      [] x.t = "null" -> FALSE
      [] x.t = "string" -> x.v # <<>>
      [] x.t = "number" -> x.v # 0
      [] x.t = "boolean" -> x.v
      [] OTHER -> TRUE

Digit == <<"0", "1", "2", "3", "4", "5", "6", "7", "8", "9">>

RECURSIVE NumToString(_)
NumToString(n) ==
    IF n < 10 THEN <<Digit[n + 1]>>
    ELSE NumToString(n \div 10) \o <<Digit[(n % 10) + 1]>>

\* value.toString() of a primitive
ToStr(x) ==
    CASE x.t = "string" -> x.v
      [] x.t = "number" -> NumToString(x.v)
      [] x.t = "boolean" -> IF x.v THEN <<"t", "r", "u", "e">>
                            ELSE <<"f", "a", "l", "s", "e">>

\* String.prototype.includes: sub occurs in s as a contiguous substring
Includes(s, sub) ==
    \E k \in 0..(Len(s) - Len(sub)) : SubSeq(s, k + 1, k + Len(sub)) = sub

Lifecycle == <<"l", "i", "f", "e", "c", "y", "c", "l", "e">>

NotificationRootType == "Notification"

ContentTypeSlack == "application/x-atomist-slack+json"

\* the other member of the type of Notification.contentType
ContentTypePlain == "text/plain"

(***************************************************************************)
(* Inputs of messageSent                                                   *)
(***************************************************************************)
\* The invocations that can be in flight on the one listener.
Inv == {"i1", "i2"}

Bob == <<"b", "o", "b">>

Amy == <<"a", "m", "y">>

Carl == <<"c", "a", "r", "l">>

Alice == <<"a", "l", "i", "c", "e">>

T1 == <<"T", "1">>

T2 == <<"T", "2">>

WorkspaceId == <<"W", "9">>

RegistrationName == <<"r", "e", "g">>

\* --- messages ----------------------------------------------------------
Param(name, value, own) == [name |-> name, value |-> value, own |-> own]

\* an entry of attachment.actions that is a command-referencing action
Act(text, command, parameters) ==
    [present |-> TRUE, text |-> text,
     command |-> [name |-> command, parameters |-> parameters]]

\* a null/undefined entry of attachment.actions
NoAct ==
    [present |-> FALSE, text |-> <<>>,
     command |-> [name |-> <<>>, parameters |-> <<>>]]

Attachment(actions) == [hasActions |-> TRUE, actions |-> actions]

AttachmentNoActions == [hasActions |-> FALSE, actions |-> <<>>]

ActA == Act(<<"A">>, <<"c", "a">>, <<Param(<<"k">>, Str(<<"v">>), TRUE)>>)

ActB ==
    Act(<<"B">>, <<"c", "b">>,
        <<Param(<<"n">>, Num(0), TRUE), Param(<<"f">>, Bool(FALSE), TRUE),
          Param(<<"e">>, Str(<<>>), TRUE), Param(<<"u">>, Undefined, TRUE),
          Param(<<"m">>, Num(12), TRUE), Param(<<"p">>, Str(<<"q">>), FALSE)>>)

ActC == Act(<<"C">>, <<"c", "c">>, <<>>)

\* typeof message === "string"
StringMessage(s) ==
    [type |-> "string", slackShape |-> FALSE, text |-> Str(s),
     hasAttachments |-> FALSE, attachments |-> <<>>]

\* an object; slackShape is the verdict of isSlackMessage on it
ObjectMessage(slackShape, text, hasAttachments, attachments) ==
    [type |-> "object", slackShape |-> slackShape, text |-> text,
     hasAttachments |-> hasAttachments, attachments |-> attachments]

Messages ==
    { StringMessage(<<"h", "i">>),
      StringMessage(<<>>),
      ObjectMessage(TRUE, Str(<<"y", "o">>), TRUE,
                    <<Attachment(<<ActA, ActB>>), AttachmentNoActions,
                      Attachment(<<NoAct, ActC>>)>>),
      ObjectMessage(FALSE, Str(<<"n", "o">>), FALSE, <<>>) }

\* --- options -----------------------------------------------------------
Options(id, ts, ttl, post, dashboard) ==
    [present |-> TRUE, id |-> id, ts |-> ts, ttl |-> ttl, post |-> post,
     dashboard |-> dashboard]

\* options === undefined
NoOptions ==
    [present |-> FALSE, id |-> Undefined, ts |-> Undefined,
     ttl |-> Undefined, post |-> Undefined, dashboard |-> Undefined]

Post == Str(<<"u", "p">>)

OptionsSet ==
    { NoOptions,
      Options(Str(<<"x">>), Num(5), Num(10), Post, Bool(TRUE)),
      Options(Str(<<>>), Num(0), Undefined, Post, Undefined),
      Options(Str(<<"l", "i", "f", "e", "c", "y", "c", "l">>), Undefined,
              Num(10), Undefined, Undefined),
      Options(Str(Lifecycle), Undefined, Undefined, Undefined, Undefined),
      Options(Str(<<"a", "/">> \o Lifecycle \o <<"/", "b">>), Num(5),
              Num(10), Post, Bool(TRUE)),
      Options(Undefined, Undefined, Undefined, Undefined, Bool(FALSE)),
      Options(Str(<<"x">>), Num(5), Num(10), Post, Bool(FALSE)) }

\* --- destinations ------------------------------------------------------
\* A SlackDestination: team, optional users, optional channels.
Destination(team, hasUsers, users, hasChannels) ==
    [team |-> team, hasUsers |-> hasUsers, users |-> users,
     hasChannels |-> hasChannels]

\* The destinations argument: absent, one Destination object, or an array.
NoDestinations == [shape |-> "absent", list |-> <<>>]

One(d) == [shape |-> "object", list |-> <<d>>]

Many(ds) == [shape |-> "array", list |-> ds]

DestinationSets ==
    { NoDestinations,
      Many(<<>>),
      One(Destination(T1, FALSE, <<>>, TRUE)),
      Many(<<Destination(T1, TRUE, <<>>, FALSE)>>),
      One(Destination(T1, TRUE, <<Bob>>, FALSE)),
      One(Destination(T1, TRUE, <<Bob, Bob>>, FALSE)),
      Many(<<Destination(T1, TRUE, <<Bob>>, TRUE),
             Destination(T1, TRUE, <<Bob>>, FALSE)>>),
      Many(<<Destination(T1, TRUE, <<Bob>>, FALSE),
             Destination(T2, TRUE, <<Bob>>, FALSE)>>),
      Many(<<Destination(T1, FALSE, <<>>, TRUE),
             Destination(T2, TRUE, <<Amy, Bob>>, FALSE)>>) }

\* --- ctx.source --------------------------------------------------------
Source(userAgent, hasWeb, hasIdentity) ==
    [present |-> TRUE, user_agent |-> userAgent,
     web |-> [present |-> hasWeb,
              identity |-> [present |-> hasIdentity, sub |-> Alice]],
     slack |-> [team |-> [id |-> T1], user |-> [name |-> Carl]]]

\* ctx.source === undefined
NoSource ==
    [present |-> FALSE, user_agent |-> "",
     web |-> [present |-> FALSE,
              identity |-> [present |-> FALSE, sub |-> <<>>]],
     slack |-> [team |-> [id |-> <<>>], user |-> [name |-> <<>>]]]

Sources ==
    { NoSource,
      Source("web", TRUE, TRUE),
      Source("web", TRUE, FALSE),
      Source("slack", FALSE, FALSE) }

\* !destinations || destinations.length === 0
NoneAddressed(destinations) ==
    \/ destinations.shape = "absent"
    \/ destinations.shape = "array" /\ Len(destinations.list) = 0

\* The arguments explored.  ctx.source is read only when no destination is
\* given, so addressed messages are explored with two of the origins.
ArgsSet ==
    { a \in [message : Messages, destinations : DestinationSets,
             options : OptionsSet, source : Sources] :
        NoneAddressed(a.destinations)
        \/ a.source \in {NoSource, Source("slack", FALSE, FALSE)} }

\* --- results of the LoginQuery -----------------------------------------
\* The level of ChatTeam[0].members[0].person.gitHubId.login at which the
\* result is null/undefined/empty ("none": every level down to gitHubId is
\* there), and the value of the login field itself.
Result(missing, login) == [missing |-> missing, login |-> login]

LookupResults ==
    { Result(lvl, Undefined) :
        lvl \in {"ChatTeam", "members", "gitHubId"} }
    \cup { Result("none", l) : l \in {Undefined, Null, Str(<<>>), Str(Alice)} }

\* Date.now()
Times == 1..MaxClock

(***************************************************************************)
(* The computations of messageSent                                         *)
(***************************************************************************)
\* Proceed as it would be if, as the comment above it says, only the master
\* process sent
ProceedMaster(isClustered, worker) == (isClustered /\ ~worker) \/ ~isClustered

\* (this.clustered && cluster.isWorker) || !this.clustered
Proceed(isClustered, worker) == (isClustered /\ worker) \/ ~isClustered

\* Ignore as it would be if the id were compared with "lifecycle" instead of
\* searched for it
IgnoreExact(options) ==
    IF options.present
    THEN \/ Truthy(options.id) /\ options.id.v = Lifecycle
         \/ options.dashboard.t = "boolean" /\ ~options.dashboard.v
    ELSE FALSE

\* Ignore as it would be if the flag were tested with !options.dashboard
IgnoreFalsyFlag(options) ==
    IF options.present
    THEN \/ Truthy(options.id) /\ Includes(options.id.v, Lifecycle)
         \/ ~Truthy(options.dashboard)
    ELSE FALSE

\* ignore, as computed from options
Ignore(options) ==
    IF options.present
    THEN \/ Truthy(options.id) /\ Includes(options.id.v, Lifecycle)
         \/ options.dashboard.t = "boolean" /\ ~options.dashboard.v
    ELSE FALSE

NoSlackMessage ==
    [defined |-> FALSE, text |-> Undefined, hasAttachments |-> FALSE,
     attachments |-> <<>>]

\* Normalize as it would be if the string test were
\* message && typeof message === "string"
NormalizeTruthy(message) ==
    IF message.type = "string" /\ Truthy(message.text)
    THEN [defined |-> TRUE, text |-> message.text, hasAttachments |-> FALSE,
          attachments |-> <<>>]
    ELSE IF message.type = "object" /\ message.slackShape
         THEN [defined |-> TRUE, text |-> message.text,
               hasAttachments |-> message.hasAttachments,
               attachments |-> message.attachments]
         ELSE NoSlackMessage

\* slackMessage: a string is wrapped, a SlackMessage is taken as it is,
\* anything else leaves slackMessage undefined
Normalize(message) ==
    IF message.type = "string"
    THEN [defined |-> TRUE, text |-> message.text, hasAttachments |-> FALSE,
          attachments |-> <<>>]
    ELSE IF message.slackShape
         THEN [defined |-> TRUE, text |-> message.text,
               hasAttachments |-> message.hasAttachments,
               attachments |-> message.attachments]
         ELSE NoSlackMessage

\* a => a.actions, as _.flatten sees it: an array is spliced in, undefined
\* stays as one (falsy) element
ActionsOf(a) == IF a.hasActions THEN a.actions ELSE <<NoAct>>

\* Flatten as it would be if each array were put in front of what has been
\* collected so far
RECURSIVE FlattenReversed(_)
FlattenReversed(as) ==
    IF as = <<>> THEN <<>>
    ELSE FlattenReversed(Tail(as)) \o ActionsOf(Head(as))

RECURSIVE Flatten(_)
Flatten(as) ==
    IF as = <<>> THEN <<>> ELSE ActionsOf(Head(as)) \o Flatten(Tail(as))

IsOwn(p) == p.own

\* the for..in loop over cra.command.parameters
Parameters(ps) ==
    LET own == SelectSeq(ps, IsOwn)
    IN  [k \in 1..Len(own) |->
            [name |-> own[k].name,
             value |-> IF Truthy(own[k].value)
                       THEN Str(ToStr(own[k].value))
                       ELSE Undefined]]

NotificationAction(a) ==
    [text |-> a.text, type |-> "button", registration |-> RegistrationName,
     command |-> a.command.name,
     parameters |-> Parameters(a.command.parameters)]

IsPresent(a) == a.present

\* const actions = _.flatten(...).filter(a => a).map(...)
Actions(slackMessage) ==
    LET atts == IF slackMessage.hasAttachments
                THEN slackMessage.attachments ELSE <<>>
        kept == SelectSeq(Flatten(atts), IsPresent)
    IN  [k \in 1..Len(kept) |-> NotificationAction(kept[k])]

\* JSON.stringify(slackMessage): the document with the defined properties
JSONStringify(slackMessage) ==
    [text |-> IF slackMessage.text.t = "undefined" THEN <<>>
              ELSE <<slackMessage.text>>,
     attachments |-> IF slackMessage.hasAttachments
                     THEN <<slackMessage.attachments>> ELSE <<>>]

\* guid(): the n-th identifier generated
Guid(n) == <<"g", "-">> \o NumToString(n)

\* BuildNotification as it would be if a message that is nothing but a text
\* were tagged as plain text
BuildNotificationByShape(slackMessage, options, guid, now) ==
    [key |-> IF options.present /\ Truthy(options.id)
             THEN options.id.v ELSE guid,
     ts |-> IF options.present /\ Truthy(options.ts)
            THEN options.ts.v ELSE now,
     ttl |-> IF options.present THEN options.ttl ELSE Undefined,
     post |-> IF options.present THEN options.post ELSE Undefined,
     body |-> JSONStringify(slackMessage),
     contentType |-> IF slackMessage.hasAttachments THEN ContentTypeSlack
                     ELSE ContentTypePlain,
     actions |-> Actions(slackMessage)]

\* const msg: Notification = {...}; guid and now are what guid() and
\* Date.now() return if called
BuildNotification(slackMessage, options, guid, now) ==
    [key |-> IF options.present /\ Truthy(options.id)
             THEN options.id.v ELSE guid,
     ts |-> IF options.present /\ Truthy(options.ts)
            THEN options.ts.v ELSE now,
     ttl |-> IF options.present THEN options.ttl ELSE Undefined,
     post |-> IF options.present THEN options.post ELSE Undefined,
     body |-> JSONStringify(slackMessage),
     contentType |-> ContentTypeSlack,
     actions |-> Actions(slackMessage)]

\* guid() is called only when options.id is not truthy
CallsGuid(options) == ~(options.present /\ Truthy(options.id))

\* _.cloneDeep(msg): a copy, equal in value
CloneDeep(m) == m

\* WithRecipient as it would be if every recipient got a key of its own
WithRecipientRekeyed(m, address) ==
    LET c == CloneDeep(m)
    IN  [key |-> c.key \o <<"/">> \o address, ts |-> c.ts, ttl |-> c.ttl,
         post |-> c.post, body |-> c.body, contentType |-> c.contentType,
         actions |-> c.actions, recipient |-> [address |-> address]]

\* {..._.cloneDeep(msg), recipient: {address}}
WithRecipient(m, address) ==
    LET c == CloneDeep(m)
    IN  [key |-> c.key, ts |-> c.ts, ttl |-> c.ttl, post |-> c.post,
         body |-> c.body, contentType |-> c.contentType,
         actions |-> c.actions, recipient |-> [address |-> address]]

\* UserAddress as it would be if the recipient were addressed by the login
\* alone
UserAddressLoginOnly(login) == login

\* `${ctx.workspaceId}-${login}`
UserAddress(login) == WorkspaceId \o <<"-">> \o login

\* sd.users.map(u => ({teamId: sd.team, screenName: u})), if sd.users
UsersOf(sd) ==
    IF sd.hasUsers
    THEN [k \in 1..Len(sd.users) |->
             [teamId |-> sd.team, screenName |-> sd.users[k]]]
    ELSE <<>>

RECURSIVE Collect(_)
Collect(dest) ==
    IF dest = <<>> THEN <<>> ELSE UsersOf(Head(dest)) \o Collect(Tail(dest))

\* users, after dest.forEach: every element is a newly created object, ref
\* is its identity
Users(destinations) ==
    LET us == Collect(destinations.list)
    IN  [k \in 1..Len(us) |->
            [ref |-> k, teamId |-> us[k].teamId,
             screenName |-> us[k].screenName]]

\* the equality _.uniq compares with: for objects, identity
SameValueZero(a, b) == a.ref = b.ref

RECURSIVE UniqFrom(_, _)
UniqFrom(s, k) ==
    IF k > Len(s) THEN <<>>
    ELSE IF \E j \in 1..(k - 1) : SameValueZero(s[j], s[k])
         THEN UniqFrom(s, k + 1)
         ELSE <<s[k]>> \o UniqFrom(s, k + 1)

\* _.uniq(users): the first occurrence of every element
Uniq(s) == UniqFrom(s, 1)

\* _.get(chatId, "ChatTeam[0].members[0].person.gitHubId.login", dflt):
\* dflt when the path resolves to undefined
Get(result, dflt) ==
    IF result.missing # "none" THEN dflt
    ELSE IF result.login.t = "undefined" THEN dflt
         ELSE result.login

\* The login field of the result, undefined when a level above it is
\* missing: what the identity resolver found.  Kept with the chain for the
\* properties; the code reads the result through Get.
Found(result) ==
    IF result.missing = "none" THEN result.login ELSE Undefined

(***************************************************************************)
(* Promises                                                                *)
(***************************************************************************)
\* A branch is one promise chain of an invocation: a send, or a query and
\* the send its then-callback makes.  st is where the chain stands.
NoUser == [ref |-> 0, teamId |-> <<>>, screenName |-> <<>>]

Branch(kind, st, user) ==
    [kind |-> kind, st |-> st, user |-> user, login |-> Undefined,
     found |-> Undefined]

RejectedStates == {"queryRejected", "sendRejected"}

\* ChainState as it would be with a .catch on the query that swallows its
\* rejection
ChainStateCaught(b) ==
    IF b.st = "sendRejected" THEN "rejected"
    ELSE IF b.st \in {"fulfilled", "queryRejected"} THEN "resolved"
         ELSE "pending"

\* the state of the promise of one chain
ChainState(b) ==
    IF b.st \in RejectedStates THEN "rejected"
    ELSE IF b.st = "fulfilled" THEN "resolved" ELSE "pending"

\* PromiseAll as it would be with Promise.race in its place: settled by the
\* first element that settles
PromiseRace(bs) ==
    IF \E k \in 1..Len(bs) : ChainState(bs[k]) = "rejected" THEN "rejected"
    ELSE IF \E k \in 1..Len(bs) : ChainState(bs[k]) = "resolved"
         THEN "resolved" ELSE "pending"

\* Promise.all(messages).then(() => Promise.resolve()): rejected as soon as
\* one element is rejected, resolved once all are fulfilled
PromiseAll(bs) ==
    IF \E k \in 1..Len(bs) : ChainState(bs[k]) = "rejected" THEN "rejected"
    ELSE IF \A k \in 1..Len(bs) : ChainState(bs[k]) = "resolved"
         THEN "resolved" ELSE "pending"

\* the promise messageSent returned, given the chains it started
Returned(a, bs) ==
    IF bs = <<>> THEN "resolved"
    ELSE IF NoneAddressed(a.destinations) THEN ChainState(bs[1])
         ELSE PromiseAll(bs)

\* ctx.graphClient.query({query: LoginQuery, variables})
Query(b, user) ==
    [branch |-> b, query |-> "LoginQuery",
     variables |-> [teamId |-> user.teamId, screenName |-> user.screenName]]

\* The identity of the actions array (and of all below it) in a record:
\* BaseRef is the array msg.actions refers to.
BaseRef == 0

\* CloneRef as it would be without _.cloneDeep: the spread {...msg} keeps
\* the reference to the array of msg
CloneRefShared(b) == BaseRef

\* _.cloneDeep(msg) makes a new array for every copy: the copy made by the
\* b-th chain gets an identity of its own
CloneRef(b) == b

\* ctx.messageClient.send(record, addressEvent(NotificationRootType))
Event(b, m, address) ==
    [branch |-> b, rootType |-> NotificationRootType,
     record |-> WithRecipient(m, address), actionsRef |-> CloneRef(b)]

NoMsg ==
    [key |-> <<>>, ts |-> 0, ttl |-> Undefined, post |-> Undefined,
     body |-> [text |-> <<>>, attachments |-> <<>>], contentType |-> "",
     actions |-> <<>>]

IdleArgs ==
    [message |-> StringMessage(<<>>), destinations |-> NoDestinations,
     options |-> NoOptions, source |-> NoSource]

\* What a call of messageSent leaves behind: the record it built, the
\* chains it started and the calls it made before returning.
Effects(forwarded, m, bs, qs, es) ==
    [forwarded |-> forwarded, msg |-> m, branches |-> bs, queries |-> qs,
     events |-> es]

\* ResponseMessage as it would be if the web test were only
\* ctx.source.user_agent === "web"
ResponseMessageAnyWeb(m, src) ==
    LET chatUser == [ref |-> 0, teamId |-> src.slack.team.id,
                     screenName |-> src.slack.user.name]
    IN  IF src.present /\ src.user_agent = "web"
        THEN Effects(TRUE, m, <<Branch("web", "send", NoUser)>>, EmptyBag,
                     SetToBag({Event(1, m,
                                     UserAddress(src.web.identity.sub))}))
        ELSE IF src.present /\ src.user_agent = "slack"
        THEN Effects(TRUE, m, <<Branch("chat", "query", chatUser)>>,
                     SetToBag({Query(1, chatUser)}), EmptyBag)
        ELSE Effects(TRUE, m, <<Branch("workspace", "send", NoUser)>>,
                     EmptyBag, SetToBag({Event(1, m, WorkspaceId)}))

\* "Response message": no destinations, the origin of the request decides
ResponseMessage(m, src) ==
    LET chatUser == [ref |-> 0, teamId |-> src.slack.team.id,
                     screenName |-> src.slack.user.name]
    IN  IF /\ src.present /\ src.user_agent = "web"
           /\ src.web.present /\ src.web.identity.present
        THEN Effects(TRUE, m, <<Branch("web", "send", NoUser)>>, EmptyBag,
                     SetToBag({Event(1, m,
                                     UserAddress(src.web.identity.sub))}))
        ELSE IF src.present /\ src.user_agent = "slack"
        THEN Effects(TRUE, m, <<Branch("chat", "query", chatUser)>>,
                     SetToBag({Query(1, chatUser)}), EmptyBag)
        ELSE Effects(TRUE, m, <<Branch("workspace", "send", NoUser)>>,
                     EmptyBag, SetToBag({Event(1, m, WorkspaceId)}))

\* AddressedMessage as it would be if the workspace send were made only for
\* destinations that name a channel
AddressedMessageChannelOnly(m, destinations) ==
    LET users == Users(destinations)
        uniq == IF Len(users) > 0 THEN Uniq(users) ELSE <<>>
        channel == \E k \in 1..Len(destinations.list) :
                       destinations.list[k].hasChannels
        ws == IF channel THEN <<Branch("workspace", "send", NoUser)>>
              ELSE <<>>
    IN  Effects(TRUE, m,
                ws \o [k \in 1..Len(uniq) |-> Branch("user", "query", uniq[k])],
                SetToBag({Query(Len(ws) + k, uniq[k]) : k \in 1..Len(uniq)}),
                IF channel THEN SetToBag({Event(1, m, WorkspaceId)})
                ELSE EmptyBag)

\* "Addressed message": one send to the workspace, one query per element
\* of _.uniq(users)
AddressedMessage(m, destinations) ==
    LET users == Users(destinations)
        uniq == IF Len(users) > 0 THEN Uniq(users) ELSE <<>>
    IN  Effects(TRUE, m,
                <<Branch("workspace", "send", NoUser)>>
                \o [k \in 1..Len(uniq) |-> Branch("user", "query", uniq[k])],
                SetToBag({Query(k + 1, uniq[k]) : k \in 1..Len(uniq)}),
                SetToBag({Event(1, m, WorkspaceId)}))

\* MessageSent as it would be if the per-user sends were made at once, to
\* the screen names, without waiting for the lookups
MessageSentEager(a, isClustered, worker, guid, now) ==
    LET sm == Normalize(a.message)
        m == BuildNotification(sm, a.options, guid, now)
        r == AddressedMessage(m, a.destinations)
    IN  IF Proceed(isClustered, worker) /\ sm.defined /\ ~Ignore(a.options)
        THEN IF NoneAddressed(a.destinations)
             THEN ResponseMessage(m, a.source)
             ELSE [r EXCEPT
                     !.events =
                         @ (+) SetToBag({
                             Event(k, m,
                                   UserAddress(r.branches[k].user.screenName)) :
                             k \in 2..Len(r.branches) })]
        ELSE Effects(FALSE, NoMsg, <<>>, EmptyBag, EmptyBag)

\* The synchronous part of messageSent(a.message, a.destinations, a.options,
\* ctx), up to its return statement.
MessageSent(a, isClustered, worker, guid, now) ==
    LET sm == Normalize(a.message)
        m == BuildNotification(sm, a.options, guid, now)
    IN  IF Proceed(isClustered, worker) /\ sm.defined /\ ~Ignore(a.options)
        THEN IF NoneAddressed(a.destinations)
             THEN ResponseMessage(m, a.source)
             ELSE AddressedMessage(m, a.destinations)
        ELSE Effects(FALSE, NoMsg, <<>>, EmptyBag, EmptyBag)

\* Login as it would be if the response (Case A) callback passed the screen
\* name as default too
LoginAlwaysFallback(b, chatId) == Get(chatId, Str(b.user.screenName))

\* The then-callback of a query: the login it extracts from chatId.  Only
\* the addressed (Case B) callback passes the screen name as default.
Login(b, chatId) ==
    IF b.kind = "user" THEN Get(chatId, Str(b.user.screenName))
    ELSE Get(chatId, Undefined)

(***************************************************************************)
(* State                                                                   *)
(***************************************************************************)
VARIABLES
    clustered,   \* this.clustered, set by the constructor
    isWorker,    \* cluster.isWorker of the process
    guids,       \* the number of identifiers guid() has generated
    promise,     \* per invocation: "idle", or the state of the promise returned
    args,        \* per invocation: the arguments it was called with
    msg,         \* per invocation: const msg
    branches,    \* per invocation: the promise chains it started
    queries,     \* per invocation: bag of the calls of ctx.graphClient.query
    events,      \* per invocation: bag of the calls of ctx.messageClient.send
    mutations,   \* per invocation: the changes made to records after their send
    configuration,  \* the Configuration the client is set up with
    configured   \* what the promises of configureDashboardNotifications hold

vars ==
    <<clustered, isWorker, guids, promise, args, msg, branches, queries,
      events, mutations, configuration, configured>>

\* what messageSent and its callbacks leave alone
setup == <<mutations, configuration, configured>>

\* new DashboardAutomationEventListener(enabled), as an element of listeners
Listener(enabled) ==
    [kind |-> "DashboardAutomationEventListener", clustered |-> enabled]

\* a listener registered by someone else
OtherListener(name) == [kind |-> name, clustered |-> FALSE]

Configuration(listeners, enabled, name) ==
    [listeners |-> listeners, cluster |-> [enabled |-> enabled],
     name |-> name]

Init ==
    /\ clustered \in BOOLEAN
    /\ isWorker \in BOOLEAN
    /\ guids = 0
    /\ promise = [i \in Inv |-> "idle"]
    /\ args = [i \in Inv |-> IdleArgs]
    /\ msg = [i \in Inv |-> NoMsg]
    /\ branches = [i \in Inv |-> <<>>]
    /\ queries = [i \in Inv |-> EmptyBag]
    /\ events = [i \in Inv |-> EmptyBag]
    /\ mutations = [i \in Inv |-> {}]
    /\ configuration = Configuration(<<Listener(clustered)>>, clustered, "client")
    /\ configured = <<configuration>>

(***************************************************************************)
(* Steps                                                                   *)
(***************************************************************************)
\* The host calls messageSent; the call runs to its return statement.
Invoke(i, a, now) ==
    /\ promise[i] = "idle"
    /\ LET r == MessageSent(a, clustered, isWorker, Guid(guids + 1), now)
       IN  /\ args' = [args EXCEPT ![i] = a]
           /\ msg' = [msg EXCEPT ![i] = r.msg]
           /\ branches' = [branches EXCEPT ![i] = r.branches]
           /\ queries' = [queries EXCEPT ![i] = r.queries]
           /\ events' = [events EXCEPT ![i] = r.events]
           /\ guids' = IF r.forwarded /\ CallsGuid(a.options)
                       THEN guids + 1 ELSE guids
           /\ promise' = [promise EXCEPT ![i] = Returned(a, r.branches)]
    /\ UNCHANGED <<clustered, isWorker>>
    /\ UNCHANGED setup

\* MsgOf as it would be if the record were kept in a field of the listener
\* (this.msg): a callback reads what the latest other call has written
MsgOfListener(i) ==
    IF \E j \in Inv \ {i} : promise[j] # "idle"
    THEN msg[CHOOSE j \in Inv \ {i} : promise[j] # "idle"]
    ELSE msg[i]

\* const msg is a local of the call: the callbacks of an invocation close
\* over the record their own call built
MsgOf(i) == msg[i]

\* A query resolves with chatId and its then-callback runs.
QueryResolves(i, b, chatId) ==
    /\ b \in 1..Len(branches[i])
    /\ branches[i][b].st = "query"
    /\ LET br == branches[i][b]
           login == Login(br, chatId)
           sends == Truthy(login)
           nbs == [branches[i] EXCEPT
                     ![b] = [br EXCEPT
                               !.st = IF sends THEN "send" ELSE "fulfilled",
                               !.login = login,
                               !.found = Found(chatId)]]
       IN  /\ branches' = [branches EXCEPT ![i] = nbs]
           /\ events' = [events EXCEPT ![i] =
                           IF sends
                           THEN @ (+) SetToBag({Event(b, MsgOf(i),
                                                  UserAddress(login.v))})
                           ELSE @]
           /\ promise' = [promise EXCEPT ![i] = Returned(args[i], nbs)]
    /\ UNCHANGED <<clustered, isWorker, guids, args, msg, queries>>
    /\ UNCHANGED setup

\* A chain settles without further calls: its query rejects, or its send
\* resolves or rejects.
Settles(i, b, from, to) ==
    /\ b \in 1..Len(branches[i])
    /\ branches[i][b].st = from
    /\ LET nbs == [branches[i] EXCEPT ![b] = [@ EXCEPT !.st = to]]
       IN  /\ branches' = [branches EXCEPT ![i] = nbs]
           /\ promise' = [promise EXCEPT ![i] = Returned(args[i], nbs)]
    /\ UNCHANGED <<clustered, isWorker, guids, args, msg, queries, events>>
    /\ UNCHANGED setup

QueryRejects(i, b) == Settles(i, b, "query", "queryRejected")

SendResolves(i, b) == Settles(i, b, "send", "fulfilled")

SendRejects(i, b) == Settles(i, b, "send", "sendRejected")

\* the chains of an invocation, in the order of the messages array
BranchIds(i) == 1..Len(branches[i])

\* Spec follows one invocation from its call to the end of its chains.
Solo == {"i1"}

CallMessageSent ==
    \E i \in Solo, a \in ArgsSet, now \in Times : Invoke(i, a, now)

QueryResolved ==
    \E i \in Solo :
        \E b \in BranchIds(i), chatId \in LookupResults :
            QueryResolves(i, b, chatId)

QueryRejected == \E i \in Solo : \E b \in BranchIds(i) : QueryRejects(i, b)

SendResolved == \E i \in Solo : \E b \in BranchIds(i) : SendResolves(i, b)

SendRejected == \E i \in Solo : \E b \in BranchIds(i) : SendRejects(i, b)

Next ==
    \/ CallMessageSent
    \/ QueryResolved
    \/ QueryRejected
    \/ SendResolved
    \/ SendRejected

Spec == Init /\ [][Next]_vars

(***************************************************************************)
(* Several invocations in flight on the same listener                      *)
(***************************************************************************)
\* The arguments and lookup results explored with two invocations in flight.
ArgsConc ==
    [message : {StringMessage(<<"h", "i">>),
                ObjectMessage(TRUE, Str(<<"y", "o">>), TRUE,
                              <<Attachment(<<ActA>>)>>)},
     destinations : {NoDestinations,
                     One(Destination(T1, TRUE, <<Bob>>, FALSE))},
     options : {NoOptions,
                Options(Str(<<"x">>), Num(5), Num(10), Post, Bool(TRUE))},
     source : {Source("slack", FALSE, FALSE)}]

LookupResultsConc ==
    {Result("none", Str(Alice)), Result("none", Null),
     Result("gitHubId", Undefined)}

ConcCallMessageSent ==
    \E i \in Inv :
        /\ promise[i] = "idle"
        /\ \E a \in ArgsConc, now \in Times : Invoke(i, a, now)

ConcQueryResolved ==
    \E i \in Inv :
        \E b \in BranchIds(i), chatId \in LookupResultsConc :
            QueryResolves(i, b, chatId)

ConcQueryRejected ==
    \E i \in Inv : \E b \in BranchIds(i) : QueryRejects(i, b)

ConcSendResolved ==
    \E i \in Inv : \E b \in BranchIds(i) : SendResolves(i, b)

ConcSendRejected ==
    \E i \in Inv : \E b \in BranchIds(i) : SendRejects(i, b)

NextConc ==
    \/ ConcCallMessageSent
    \/ ConcQueryResolved
    \/ ConcQueryRejected
    \/ ConcSendResolved
    \/ ConcSendRejected

SpecConc == Init /\ [][NextConc]_vars

(***************************************************************************)
(* Records after they are handed to ctx.messageClient.send                 *)
(***************************************************************************)
\* The arguments explored with a publisher that writes into what it is
\* given: a message with actions, and every way of addressing it.
ArgsClone ==
    [message : {ObjectMessage(TRUE, Str(<<"y", "o">>), TRUE,
                              <<Attachment(<<ActA>>)>>)},
     destinations : {NoDestinations,
                     One(Destination(T1, TRUE, <<Bob, Bob>>, FALSE)),
                     Many(<<Destination(T1, FALSE, <<>>, TRUE),
                            Destination(T2, TRUE, <<Amy, Bob>>, FALSE)>>)},
     options : {NoOptions},
     source : {NoSource, Source("web", TRUE, TRUE),
               Source("slack", FALSE, FALSE)}]

CloneCallMessageSent ==
    \E i \in Solo :
        /\ promise[i] = "idle"
        /\ \E a \in ArgsClone, now \in Times : Invoke(i, a, now)

\* The publisher (or anyone holding the record of event e) writes into its
\* actions: the write lands in the array the record refers to.
PublisherMutates(i, e) ==
    /\ e \in BagToSet(events[i])
    /\ [record |-> e.branch, array |-> e.actionsRef] \notin mutations[i]
    /\ mutations' = [mutations EXCEPT
                       ![i] = @ \cup {[record |-> e.branch,
                                       array |-> e.actionsRef]}]
    /\ UNCHANGED <<clustered, isWorker, guids, promise, args, msg, branches,
                   queries, events, configuration, configured>>

RecordMutated ==
    \E i \in Solo : \E e \in BagToSet(events[i]) : PublisherMutates(i, e)

NextClone ==
    \/ CloneCallMessageSent
    \/ QueryResolved
    \/ QueryRejected
    \/ SendResolved
    \/ SendRejected
    \/ RecordMutated

SpecClone == Init /\ [][NextClone]_vars

(***************************************************************************)
(* Messages with attachments and actions                                   *)
(***************************************************************************)
\* every sequence over S of length at most n
SeqsUpTo(S, n) == UNION { [1..k -> S] : k \in 0..n }

\* what attachment.actions can hold: actions and null/undefined entries
ActionLists == SeqsUpTo({ActA, ActC, NoAct}, MaxActions)

Attachments ==
    {AttachmentNoActions} \cup { Attachment(as) : as \in ActionLists }

\* SlackMessages without attachments and with every list of attachments,
\* sent as a response without origin
ArgsActions ==
    [message : {ObjectMessage(TRUE, Str(<<"y", "o">>), FALSE, <<>>)}
               \cup { ObjectMessage(TRUE, Str(<<"y", "o">>), TRUE, atts) :
                      atts \in SeqsUpTo(Attachments, MaxAttachments) },
     destinations : {NoDestinations},
     options : {NoOptions},
     source : {NoSource}]

ActionsCallMessageSent ==
    \E i \in Solo :
        /\ promise[i] = "idle"
        /\ \E a \in ArgsActions, now \in Times : Invoke(i, a, now)

NextActions ==
    \/ ActionsCallMessageSent
    \/ SendResolved
    \/ SendRejected

SpecActions == Init /\ [][NextActions]_vars

(***************************************************************************)
(* configureDashboardNotifications                                         *)
(***************************************************************************)
\* the listeners other extensions have registered before
OtherListeners == {OtherListener("A"), OtherListener("B")}

ListenerLists ==
    {<<>>} \cup { <<a>> : a \in OtherListeners }
    \cup { <<a, b>> : a, b \in OtherListeners }

Configurations ==
    { Configuration(ls, enabled, name) :
        ls \in ListenerLists, enabled \in BOOLEAN,
        name \in {"client", "other"} }

\* Register as it would be with unshift in place of push
RegisterFirst(c) ==
    [c EXCEPT !.listeners = <<Listener(c.cluster.enabled)>> \o @]

\* configuration.listeners.push(new DashboardAutomationEventListener(
\*     configuration.cluster.enabled))
Register(c) ==
    [c EXCEPT !.listeners = Append(@, Listener(c.cluster.enabled))]

\* Before any call of configureDashboardNotifications: no listener of this
\* extension exists yet, clustered is a placeholder.
InitConfig ==
    /\ configuration \in Configurations
    /\ configured = <<>>
    /\ clustered = FALSE
    /\ isWorker \in BOOLEAN
    /\ guids = 0
    /\ promise = [i \in Inv |-> "idle"]
    /\ args = [i \in Inv |-> IdleArgs]
    /\ msg = [i \in Inv |-> NoMsg]
    /\ branches = [i \in Inv |-> <<>>]
    /\ queries = [i \in Inv |-> EmptyBag]
    /\ events = [i \in Inv |-> EmptyBag]
    /\ mutations = [i \in Inv |-> {}]

\* configureDashboardNotifications(configuration).  Every promise it has
\* returned holds the one configuration object, so all of them show the
\* object as it is now.
Configure ==
    /\ Len(configuration.listeners) < MaxListeners
    /\ configuration' = Register(configuration)
    /\ configured' = [k \in 1..(Len(configured) + 1) |-> configuration']
    /\ clustered' = configuration.cluster.enabled
    /\ UNCHANGED <<isWorker, guids, promise, args, msg, branches, queries,
                   events, mutations>>

NextConfig == Configure

SpecConfig == InitConfig /\ [][NextConfig]_vars

TypeOK ==
    /\ clustered \in BOOLEAN
    /\ isWorker \in BOOLEAN
    /\ guids \in 0..Cardinality(Inv)
    /\ \A i \in Inv :
          /\ promise[i] \in {"idle", "pending", "resolved", "rejected"}
          /\ args[i] \in ArgsSet \cup {IdleArgs}
          /\ \A b \in 1..Len(branches[i]) :
                branches[i][b].st \in
                    {"query", "queryRejected", "send", "fulfilled",
                     "sendRejected"}

(***************************************************************************)
(* Vocabulary of the properties, stated on the arguments and the calls     *)
(***************************************************************************)
Invoked(i) == promise[i] # "idle"

\* the process may send: clustering is off, or it is a worker
MaySend == ~clustered \/ isWorker

Recognized(message) == message.type = "string" \/ message.slackShape

HasLifecycleId(options) ==
    /\ options.present
    /\ options.id.t = "string"
    /\ Includes(options.id.v, Lifecycle)

Suppressed(options) ==
    options.present /\ options.dashboard = Bool(FALSE)

\* the invocation passed every filter
Forwards(i) ==
    /\ Invoked(i)
    /\ MaySend
    /\ Recognized(args[i].message)
    /\ ~HasLifecycleId(args[i].options)
    /\ ~Suppressed(args[i].options)

\* a single destination object or a non-empty list
Addressed(i) ==
    \/ args[i].destinations.shape = "object"
    \/ args[i].destinations.shape = "array"
       /\ args[i].destinations.list # <<>>

\* the (team, screen name) pairs the destinations name
Pairs(i) ==
    LET ds == args[i].destinations.list
    IN  UNION { { <<ds[d].team, ds[d].users[u]>> :
                    u \in 1..Len(ds[d].users) } :
                d \in {x \in 1..Len(ds) : ds[x].hasUsers} }

NumQueries(i) == BagCardinality(queries[i])

NumEvents(i) == BagCardinality(events[i])

\* the number of events sent to an address
EventsTo(i, address) ==
    LET S == { e \in BagToSet(events[i]) :
                 e.record.recipient.address = address }
    IN  BagCardinality([e \in S |-> events[i][e]])

\* the number of events a chain sent to an address
EventsOf(i, b, address) ==
    LET S == { e \in BagToSet(events[i]) :
                 e.branch = b /\ e.record.recipient.address = address }
    IN  BagCardinality([e \in S |-> events[i][e]])

\* the query of a chain has returned a result
Returned1(br) == br.st \in {"send", "fulfilled", "sendRejected"}

(***************************************************************************)
(* Claims                                                                  *)
(***************************************************************************)
\* C1: in Case B the (team, screen name) pairs are deduplicated by value, so
\* the number of identity lookups issued equals the number of distinct
\* pairs named by the destinations.
C1_LookupsEqualDistinctPairs ==
    \A i \in Inv :
        Forwards(i) /\ Addressed(i)
        => NumQueries(i) = Cardinality(Pairs(i))

\* C2: every forwarded message with a non-empty destination set publishes
\* exactly one event addressed to the bare workspace id, channels or not,
\* whatever the number of users.
C2_OneWorkspaceEvent ==
    \A i \in Inv :
        Forwards(i) /\ Addressed(i) => EventsTo(i, WorkspaceId) = 1

C2_Witness ==
    \E i \in Inv :
        /\ Forwards(i) /\ Addressed(i)
        /\ \A d \in 1..Len(args[i].destinations.list) :
              ~args[i].destinations.list[d].hasChannels
        /\ NumEvents(i) >= 3
        /\ EventsTo(i, WorkspaceId) = 1

\* C3: in Case B every user entry whose lookup returned without a usable
\* login (a level absent, or login null or empty) gets exactly one event
\* addressed to {workspaceId}-{screenName}.
C3_FallbackNeverDrops ==
    \A i \in Inv :
        \A b \in 1..Len(branches[i]) :
            LET br == branches[i][b]
            IN  br.kind = "user" /\ Returned1(br) /\ ~Truthy(br.found)
                => EventsOf(i, b, WorkspaceId \o <<"-">> \o br.user.screenName)
                   = 1

\* no destinations: absent or an empty list
Unaddressed(i) ==
    \/ args[i].destinations.shape = "absent"
    \/ args[i].destinations.shape = "array"
       /\ args[i].destinations.list = <<>>

\* the request came from a chat session
ChatOrigin(i) ==
    args[i].source.present /\ args[i].source.user_agent = "slack"

\* the invocation made no external call and its promise is resolved
Silent(i) ==
    NumQueries(i) = 0 /\ NumEvents(i) = 0 /\ promise[i] = "resolved"

\* C4: Case A, chat origin: exactly one lookup, for the team id and screen
\* name of the chat user; a login L gives exactly one event, addressed to
\* {workspaceId}-L and published only after the lookup returned; no login
\* gives no event and a resolved promise.
C4_ChatOrigin ==
    \A i \in Inv :
        Forwards(i) /\ Unaddressed(i) /\ ChatOrigin(i)
        => /\ Len(branches[i]) = 1
           /\ NumQueries(i) = 1
           /\ \A q \in BagToSet(queries[i]) :
                 q.variables =
                     [teamId |-> args[i].source.slack.team.id,
                      screenName |-> args[i].source.slack.user.name]
           /\ LET br == branches[i][1]
              IN  /\ ~Returned1(br) => NumEvents(i) = 0
                  /\ Returned1(br) /\ Truthy(br.found)
                     => /\ NumEvents(i) = 1
                        /\ EventsTo(i, WorkspaceId \o <<"-">> \o br.found.v) = 1
                  /\ Returned1(br) /\ ~Truthy(br.found)
                     => NumEvents(i) = 0 /\ promise[i] = "resolved"

C4_Witness ==
    \E i \in Inv :
        /\ Forwards(i) /\ Unaddressed(i) /\ ChatOrigin(i)
        /\ args[i].message.type = "string"
        /\ EventsTo(i, WorkspaceId \o <<"-">> \o Alice) = 1
        /\ promise[i] = "resolved"

C6_LifecycleFilter ==
    \A i \in Inv :
        Invoked(i) /\ HasLifecycleId(args[i].options) => Silent(i)

C6_Witness ==
    \E i \in Inv :
        /\ Invoked(i) /\ HasLifecycleId(args[i].options)
        /\ args[i].options.id.v # Lifecycle
        /\ MaySend
        /\ Recognized(args[i].message)
        /\ ~Suppressed(args[i].options)
        /\ Cardinality(Pairs(i)) = 2
        /\ Silent(i)

\* C7: an invocation whose options.dashboard is false makes no lookup and
\* publishes nothing; one whose options lack the flag, and which no other
\* filter stops, does make a call.
C7_SuppressionFlag ==
    \A i \in Inv :
        Invoked(i)
        => /\ Suppressed(args[i].options)
              => NumQueries(i) = 0 /\ NumEvents(i) = 0
           /\ /\ args[i].options.dashboard.t = "undefined"
              /\ MaySend
              /\ Recognized(args[i].message)
              /\ ~HasLifecycleId(args[i].options)
              => NumQueries(i) + NumEvents(i) > 0

C7_Witness ==
    \E i \in Inv :
        /\ Invoked(i) /\ Suppressed(args[i].options)
        /\ MaySend
        /\ Recognized(args[i].message)
        /\ ~HasLifecycleId(args[i].options)
        /\ Cardinality(Pairs(i)) = 2
        /\ Silent(i)

\* C8: a message that is neither a string nor a SlackMessage is dropped:
\* no lookup, no event, resolved promise.  A string, also the empty one, is
\* wrapped as a message with only a text field and forwarded.
C8_MessageShape ==
    \A i \in Inv :
        Invoked(i)
        => /\ ~Recognized(args[i].message) => Silent(i)
           /\ /\ args[i].message.type = "string"
              /\ MaySend
              /\ ~HasLifecycleId(args[i].options)
              /\ ~Suppressed(args[i].options)
              => /\ NumQueries(i) + NumEvents(i) > 0
                 /\ msg[i].body =
                        [text |-> <<args[i].message.text>>,
                         attachments |-> <<>>]
                 /\ \A e \in BagToSet(events[i]) :
                       e.record.body = msg[i].body

C8_Witness ==
    \E i \in Inv :
        /\ Invoked(i) /\ ~Recognized(args[i].message)
        /\ MaySend
        /\ ~HasLifecycleId(args[i].options)
        /\ ~Suppressed(args[i].options)
        /\ Cardinality(Pairs(i)) = 2
        /\ Silent(i)

\* C9: all events published by one invocation carry the same key, ts, ttl,
\* post, body and actions, also when key and ts are generated.
C9_ClonesAgree ==
    \A i \in Inv :
        \A e1, e2 \in BagToSet(events[i]) :
            /\ e1.record.key = e2.record.key
            /\ e1.record.ts = e2.record.ts
            /\ e1.record.ttl = e2.record.ttl
            /\ e1.record.post = e2.record.post
            /\ e1.record.body = e2.record.body
            /\ e1.record.actions = e2.record.actions
            /\ e1.record.contentType = e2.record.contentType

C9_Witness ==
    \E i \in Inv :
        /\ ~args[i].options.present
        /\ args[i].message.type = "object"
        /\ NumEvents(i) = 3
        /\ \E e1, e2 \in BagToSet(events[i]) :
              /\ e1.record.recipient.address = WorkspaceId
              /\ e2.record.recipient.address = WorkspaceId \o <<"-">> \o Bob
              /\ e1.record.actions # <<>>

\* an element of the messages array is still pending
Pending(br) == br.st \in {"query", "send"}

\* C10 as stated: in Case B the returned promise completes, resolved or
\* rejected, only when no chain is pending any more.
C10_CompletesOnlyWhenAllSettled ==
    \A i \in Inv :
        Forwards(i) /\ Addressed(i) /\ promise[i] \in {"resolved", "rejected"}
        => \A b \in 1..Len(branches[i]) : ~Pending(branches[i][b])

\* C10 as amended: in Case B the returned promise is resolved only when the
\* workspace send and every per-user chain are fulfilled, and it is rejected
\* exactly when some chain has failed, pending chains or not.
C10_ResolvesOnlyWhenAllFulfilled ==
    \A i \in Inv :
        Forwards(i) /\ Addressed(i)
        => /\ promise[i] = "resolved"
              => \A b \in 1..Len(branches[i]) :
                     branches[i][b].st = "fulfilled"
           /\ promise[i] = "rejected"
              <=> \E b \in 1..Len(branches[i]) :
                      branches[i][b].st \in {"queryRejected", "sendRejected"}

C10_Witness ==
    \E i \in Inv :
        /\ Forwards(i) /\ Addressed(i)
        /\ Len(branches[i]) = 3
        /\ NumEvents(i) = 3
        /\ promise[i] = "resolved"

\* the number of queries a chain issued
QueriesBy(i, b) ==
    LET S == { q \in BagToSet(queries[i]) : q.branch = b }
    IN  BagCardinality([q \in S |-> queries[i][q]])

\* the number of events a chain published
EventsBy(i, b) ==
    LET S == { e \in BagToSet(events[i]) : e.branch = b }
    IN  BagCardinality([e \in S |-> events[i][e]])

Failed(br) == br.st \in {"queryRejected", "sendRejected"}

\* C11: if a query or a send of an invocation rejects, the returned promise
\* rejects; the call that rejected is not issued again and its chain makes
\* no further call; if none rejects the promise is never rejected, and it is
\* resolved once every chain is fulfilled.
C11_FailurePropagation ==
    \A i \in Inv :
        Invoked(i)
        => /\ promise[i] = "rejected"
              <=> \E b \in 1..Len(branches[i]) : Failed(branches[i][b])
           /\ (\A b \in 1..Len(branches[i]) : branches[i][b].st = "fulfilled")
              => promise[i] = "resolved"
           /\ \A b \in 1..Len(branches[i]) :
                 /\ branches[i][b].st = "queryRejected"
                    => QueriesBy(i, b) = 1 /\ EventsBy(i, b) = 0
                 /\ branches[i][b].st = "sendRejected"
                    => QueriesBy(i, b) <= 1 /\ EventsBy(i, b) = 1

C11_Witness ==
    \E i \in Inv :
        /\ Forwards(i) /\ Addressed(i)
        /\ promise[i] = "rejected"
        /\ Len(branches[i]) = 3
        /\ branches[i][1].st = "fulfilled"
        /\ branches[i][2].st = "queryRejected"
        /\ branches[i][3].st = "sendRejected"

\* the request came from a web session with an authenticated identity
WebIdentityOrigin(i) ==
    /\ args[i].source.present
    /\ args[i].source.user_agent = "web"
    /\ args[i].source.web.present
    /\ args[i].source.web.identity.present

\* C12: Case A, web origin with an identity subject: exactly one event,
\* addressed to {workspaceId}-{subjectId}, and no identity lookup.
C12_WebOrigin ==
    \A i \in Inv :
        Forwards(i) /\ Unaddressed(i) /\ WebIdentityOrigin(i)
        => /\ NumQueries(i) = 0
           /\ NumEvents(i) = 1
           /\ EventsTo(i, WorkspaceId \o <<"-">>
                          \o args[i].source.web.identity.sub) = 1

C12_Witness ==
    \E i \in Inv :
        /\ Forwards(i) /\ Unaddressed(i) /\ WebIdentityOrigin(i)
        /\ args[i].destinations.shape = "array"
        /\ EventsTo(i, WorkspaceId \o <<"-">> \o Alice) = 1
        /\ promise[i] = "resolved"

\* C13: Case A, any other origin (none at all, or a web origin without an
\* identity): exactly one event, addressed to the bare workspace id, and no
\* identity lookup.
C13_OtherOrigin ==
    \A i \in Inv :
        /\ Forwards(i) /\ Unaddressed(i)
        /\ ~WebIdentityOrigin(i) /\ ~ChatOrigin(i)
        => /\ NumQueries(i) = 0
           /\ NumEvents(i) = 1
           /\ EventsTo(i, WorkspaceId) = 1

C13_Witness ==
    \E i \in Inv :
        /\ Forwards(i) /\ Unaddressed(i)
        /\ args[i].source.present
        /\ args[i].source.user_agent = "web"
        /\ ~args[i].source.web.identity.present
        /\ EventsTo(i, WorkspaceId) = 1
        /\ promise[i] = "resolved"

\* the listeners of this extension in a configuration
Dashboards(c) ==
    { k \in 1..Len(c.listeners) :
        c.listeners[k].kind = "DashboardAutomationEventListener" }

\* C14: a call of configureDashboardNotifications appends exactly one
\* DashboardAutomationEventListener, constructed with
\* configuration.cluster.enabled, at the end of configuration.listeners,
\* leaves the listeners before it and the other fields as they were, and
\* resolves with the configuration; after n calls n listeners were appended.
C14_Registration ==
    [][ configuration' # configuration \/ configured' # configured
        => /\ Len(configuration'.listeners) = Len(configuration.listeners) + 1
           /\ \A k \in 1..Len(configuration.listeners) :
                 configuration'.listeners[k] = configuration.listeners[k]
           /\ configuration'.listeners[Len(configuration'.listeners)] =
                 [kind |-> "DashboardAutomationEventListener",
                  clustered |-> configuration.cluster.enabled]
           /\ configuration'.cluster = configuration.cluster
           /\ configuration'.name = configuration.name
           /\ Len(configured') = Len(configured) + 1
           /\ \A k \in 1..Len(configured') : configured'[k] = configuration'
           /\ Cardinality(Dashboards(configuration')) = Len(configured')
      ]_vars

C14_Witness ==
    /\ Len(configured) = 2
    /\ Len(configuration.listeners) = 4
    /\ configuration.cluster.enabled
    /\ configuration.listeners[1] = OtherListener("B")
    /\ configuration.listeners[2] = OtherListener("A")
    /\ Dashboards(configuration) = {3, 4}

\* C15: in Case B the rejection of one per-user lookup cancels nothing: the
\* workspace event is published, the lookup of every other user entry is
\* issued, and every other entry whose lookup has returned has its per-user
\* event published.
C15_BranchIsolation ==
    \A i \in Inv :
        Forwards(i) /\ Addressed(i)
        => \A b \in 1..Len(branches[i]) :
               branches[i][b].kind = "user"
               /\ branches[i][b].st = "queryRejected"
               => /\ EventsTo(i, WorkspaceId) = 1
                  /\ \A c \in 1..Len(branches[i]) :
                        c # b /\ branches[i][c].kind = "user"
                        => /\ QueriesBy(i, c) = 1
                           /\ Returned1(branches[i][c])
                              => EventsBy(i, c) = 1

\* what an invocation holds: its arguments, its record, its chains, its
\* calls and the promise it returned
Locals(i) ==
    <<promise[i], args[i], msg[i], branches[i], queries[i], events[i]>>

\* The events invocation i publishes when it runs alone with the same
\* arguments, the same identifier and clock value and the same outcomes of
\* its own lookups: those of its call, and one per chain of its own whose
\* lookup gave a login.
Alone(i) ==
    LET r == MessageSent(args[i], clustered, isWorker, msg[i].key, msg[i].ts)
        sent == { b \in 1..Len(branches[i]) :
                    /\ branches[i][b].kind \in {"user", "chat"}
                    /\ Returned1(branches[i][b])
                    /\ Truthy(branches[i][b].login) }
    IN  IF promise[i] = "idle" THEN EmptyBag
        ELSE r.events
             (+) SetToBag({ Event(b, r.msg,
                                  UserAddress(branches[i][b].login.v)) :
                            b \in sent })

\* C16: with several invocations in flight, in every interleaving, the
\* events of each invocation (addresses and records) are those it publishes
\* when run alone; a step belongs to one invocation, changes nothing another
\* invocation holds, and never writes the listener's field.
C16_Independence ==
    /\ [](\A i \in Inv : events[i] = Alone(i))
    /\ [][ /\ clustered' = clustered
           /\ \A i, j \in Inv :
                 i # j => Locals(i)' = Locals(i) \/ Locals(j)' = Locals(j)
       ]_vars

\* both invocations are in flight with different messages, and each has
\* published an event after a lookup of its own
C16_Witness ==
    /\ \A i \in Inv : NumEvents(i) >= 1 /\ NumQueries(i) >= 1
    /\ \E i \in Inv : promise[i] = "pending"
    /\ args["i1"].message # args["i2"].message
    /\ \A i \in Inv : \E b \in 1..Len(branches[i]) :
          branches[i][b].kind \in {"user", "chat"} /\ EventsBy(i, b) = 1

\* a write made through one record reaches record e
Affects(mu, e) == mu.array = e.actionsRef

\* a write made through one record reaches msg, the base of every copy
\* made afterwards
AffectsBase(mu) == mu.array = BaseRef

\* C17: a write into one published record, made at any point, reaches no
\* other record the invocation has published or publishes later: it reaches
\* neither another record nor the base record later copies are made from.
C17_CloneIsolation ==
    \A i \in Inv : \A mu \in mutations[i] :
        /\ ~AffectsBase(mu)
        /\ \A e \in BagToSet(events[i]) :
              Affects(mu, e) => e.branch = mu.record

\* a record was written into while another lookup was still pending, and
\* another record has been published as well
C17_Witness ==
    \E mu \in mutations["i1"] :
        /\ \E e \in BagToSet(events["i1"]) : e.branch # mu.record
        /\ \E b \in 1..Len(branches["i1"]) : branches["i1"][b].st = "query"

\* the number of user entries in a list of destinations
RECURSIVE UserEntries(_)
UserEntries(list) ==
    IF list = <<>> THEN 0
    ELSE (IF Head(list).hasUsers THEN Len(Head(list).users) ELSE 0)
         + UserEntries(Tail(list))

\* the chains of an invocation that look a user up
UserChains(i) ==
    { b \in 1..Len(branches[i]) : branches[i][b].kind = "user" }

\* the number of events the user chains of an invocation published
PerUserEvents(i) ==
    LET S == { e \in BagToSet(events[i]) : e.branch \in UserChains(i) }
    IN  BagCardinality([e \in S |-> events[i][e]])

\* C18: in Case B a chain publishes its per-user event only once the lookup
\* it issued has returned, and at most once; so the per-user events never
\* outnumber the lookups issued, and all events never exceed 1 + the number
\* of user entries in the destinations.
C18_LookupBeforePublish ==
    \A i \in Inv :
        Forwards(i) /\ Addressed(i)
        => /\ \A b \in UserChains(i) :
                 /\ EventsBy(i, b) <= 1
                 /\ EventsBy(i, b) = 1
                    => QueriesBy(i, b) = 1 /\ Returned1(branches[i][b])
                 /\ ~Returned1(branches[i][b]) => EventsBy(i, b) = 0
           /\ PerUserEvents(i) <= NumQueries(i)
           /\ NumEvents(i) <= 1 + UserEntries(args[i].destinations.list)

\* two entries: one lookup has returned and its event is published, the
\* other is still out and has published nothing
C18_Witness ==
    /\ Forwards("i1") /\ Addressed("i1")
    /\ \E b, c \in UserChains("i1") :
          /\ Returned1(branches["i1"][b]) /\ EventsBy("i1", b) = 1
          /\ branches["i1"][c].st = "query" /\ EventsBy("i1", c) = 0
    /\ NumEvents("i1") = 2

\* the attachments of the message of an invocation
AttachmentsOf(i) ==
    IF args[i].message.hasAttachments THEN args[i].message.attachments
    ELSE <<>>

\* the places <<k, j>> of the message that hold an action: the j-th entry
\* of the actions of the k-th attachment, if it is not absent
Slots(i) ==
    LET atts == AttachmentsOf(i)
    IN  UNION { { <<k, j>> : j \in { n \in 1..Len(atts[k].actions) :
                                       /\ atts[k].hasActions
                                       /\ atts[k].actions[n].present } } :
                k \in 1..Len(atts) }

\* attachment order, then the order within the attachment
Precedes(s, t) == s[1] < t[1] \/ (s[1] = t[1] /\ s[2] < t[2])

\* the position of a place among the places that hold an action
Rank(i, s) == Cardinality({ t \in Slots(i) : Precedes(t, s) }) + 1

\* C19: the actions of the published record are one NotificationAction for
\* every action of the message and nothing else, in attachment order and,
\* within an attachment, in the order of its list; absent entries and
\* attachments without a list contribute nothing.
C19_FlattenInOrder ==
    \A i \in Inv : \A e \in BagToSet(events[i]) :
        LET atts == AttachmentsOf(i)
            acts == e.record.actions
        IN  /\ Len(acts) = Cardinality(Slots(i))
            /\ \A s \in Slots(i) :
                  LET a == atts[s[1]].actions[s[2]]
                      n == acts[Rank(i, s)]
                  IN  /\ n.text = a.text
                      /\ n.command = a.command.name
                      /\ n.type = "button"
                      /\ n.registration = RegistrationName

\* [A1{actions: [a, null]}, A2{no actions}], [.., A2{actions: [c, a]}]: a
\* record is published with the actions of two attachments, two of them
\* from the same attachment, an absent entry skipped
C19_Witness ==
    \E e \in BagToSet(events["i1"]) :
        LET atts == AttachmentsOf("i1")
        IN  /\ Len(atts) = 2
            /\ atts[1] = Attachment(<<ActA, NoAct>>)
            /\ atts[2] = Attachment(<<ActC, ActA>>)
            /\ Len(e.record.actions) = 3
            /\ e.record.actions[2].text = ActC.text

\* the value a parameter is to be carried with: its string form, or
\* undefined if it is absent itself
StringForm(v) ==
    IF v.t \in {"undefined", "null"} THEN Undefined ELSE Str(ToStr(v))

\* C20: for every action of the message and every own key of its command
\* parameters, the NotificationAction has exactly one {name, value} pair of
\* that name, and its value is the string form of the original value,
\* undefined only if the original value is absent.
C20_ParametersStringified ==
    \A i \in Inv : \A e \in BagToSet(events[i]) : \A s \in Slots(i) :
        LET ps == AttachmentsOf(i)[s[1]].actions[s[2]].command.parameters
            out == e.record.actions[Rank(i, s)].parameters
        IN  \A k \in 1..Len(ps) :
                IsOwn(ps[k])
                => /\ Cardinality({ j \in 1..Len(out) :
                                      out[j].name = ps[k].name }) = 1
                   /\ \A j \in 1..Len(out) :
                         out[j].name = ps[k].name
                         => out[j].value = StringForm(ps[k].value)

\* a property of options that was supplied: options is there and the
\* property is not undefined
Supplied(options, v) == options.present /\ v.t # "undefined"

\* C21: the key of a published record is options.id whenever options.id is
\* supplied and otherwise the identifier just generated; its ts is
\* options.ts whenever options.ts is supplied, 0 included, and otherwise the
\* current time; ttl and post are those of options, undefined without
\* options.
C21_KeyAndTimestamp ==
    \A i \in Inv : \A e \in BagToSet(events[i]) :
        LET o == args[i].options
            r == e.record
        IN  /\ r.key = IF Supplied(o, o.id) THEN o.id.v ELSE Guid(guids)
            /\ IF Supplied(o, o.ts) THEN r.ts = o.ts.v ELSE r.ts \in Times
            /\ r.ttl = IF o.present THEN o.ttl ELSE Undefined
            /\ r.post = IF o.present THEN o.post ELSE Undefined

\* C22 as stated: the contentType of a published record is the plain-text
\* tag if messageSent was given a string and the chat-message tag if it was
\* given a SlackMessage.
C22_ContentTypeReflectsShape ==
    \A i \in Inv : \A e \in BagToSet(events[i]) :
        e.record.contentType =
            IF args[i].message.type = "string" THEN ContentTypePlain
            ELSE ContentTypeSlack

\* C22, amended: the contentType of every published record is the
\* chat-message tag, whatever messageSent was given; a string is published
\* as the serialized message that wraps it, under the same tag.
C22_ContentTypeAlwaysSlack ==
    \A i \in Inv : \A e \in BagToSet(events[i]) :
        /\ e.record.contentType = ContentTypeSlack
        /\ args[i].message.type = "string"
           => e.record.body = [text |-> <<args[i].message.text>>,
                               attachments |-> <<>>]

\* a string was given and its record is published under the chat-message
\* tag; nothing was published for it as plain text
C22_Witness ==
    /\ args["i1"].message = StringMessage(<<"h", "i">>)
    /\ NumEvents("i1") >= 1
    /\ \A e \in BagToSet(events["i1"]) :
          e.record.contentType = ContentTypeSlack
====
